---- MODULE Spec2Model ----
(***************************************************************************)
(* Publish orchestration of packages/cli/src/commands/publish/npm-utils.ts *)
(* The three p-limit gates, the shared TwoFactorState and the retry loop   *)
(* of internalPublish.  Every action is one continuation of the event      *)
(* loop: it starts where an external event completes (a spawned process    *)
(* returns, the operator answers, getTokenIsRequired settles, a caller     *)
(* calls in) and runs until the chain next waits for such an event.        *)
(*                                                                         *)
(* Publish calls are interchangeable, so the calls in flight are kept as a *)
(* bag of records.  Tokens are numbered by provenance: 0 is null, k >= 1   *)
(* is the k-th value the operator supplied.                                *)
(***************************************************************************)
EXTENDS Integers, Sequences, FiniteSets, Bags, TLC

(* --- bounds of the model ------------------------------------------------ *)
MaxPublish == 2       \* publish calls of a session
MaxInfo == 1          \* getPackageInfo calls in flight at once
MaxOtpErrors == 2     \* OTP rejections the registry issues outside CI
LoadPublish == 11     \* publish calls of a session that fills the publish gate
LoadInfo == 40        \* getPackageInfo calls in flight when the request gate fills
MaxMajor == 5         \* highest major version a tool reports
MaxPieces == 3        \* pieces of text in the stdout of a publish attempt

(* --- program constants -------------------------------------------------- *)
RequestConcurrency == 40    \* pLimit(40)
PublishConcurrency == 10    \* pLimit(10)
OtpConcurrency == 1         \* pLimit(1)

VARIABLES
  isCI,             \* the ambient CI signal
  token,            \* twoFactorState.token (0 is null)
  isRequired,       \* twoFactorState.isRequired: "given" (the promise the state was
                    \* made with) or the value of a Promise.resolve(...) assigned since
  given,            \* that promise: "pending", "true", "false", "rejected"
  supplied,         \* token values supplied so far (names the next one)
  prompts,          \* askQuestion calls so far
  npmRequestLimit,  \* [activeCount, pendingCount]
  npmPublishLimit,
  otpAskLimit,
  infoCalls,        \* getPackageInfo calls: [queued, running]
  calls,            \* bag of the publish calls in flight
  limit,            \* what the environment does at most: [info, publish, otp]
  made,             \* publish calls made so far
  rejections,       \* OTP rejections handled outside CI so far
  otpCodes,         \* the error codes of those
  event,            \* what this step settled, if it handled the output of a spawn
  input,            \* a function of the module and its arguments, when one is applied alone
  output            \* what it returned or threw

\* the publish orchestration
program == <<isCI, token, isRequired, given, supplied, prompts, npmRequestLimit,
             npmPublishLimit, otpAskLimit, infoCalls, calls, limit, made, rejections,
             otpCodes, event>>

vars == <<program, input, output>>

(* --- p-limit -------------------------------------------------------------- *)
IdleGate == [activeCount |-> 0, pendingCount |-> 0]

\* limit(fn): fn runs at once when a slot is free, else it is queued
HasSlot(g, concurrency) == g.activeCount < concurrency

Enter(g, concurrency) ==
  IF HasSlot(g, concurrency)
  THEN [g EXCEPT !.activeCount = @ + 1]
  ELSE [g EXCEPT !.pendingCount = @ + 1]

\* fn settled (resolved or rejected): the slot goes to the next queued fn, if any
Leave(g) ==
  IF g.pendingCount > 0
  THEN [g EXCEPT !.pendingCount = @ - 1]
  ELSE [g EXCEPT !.activeCount = @ - 1]

(* --- tool output ---------------------------------------------------------- *)
\* stdout of a spawned tool: blank, text that is no JSON, or a JSON object
\* with or without an error field {code, detail?}
Blank == [blank |-> TRUE, parses |-> FALSE, error |-> FALSE, code |-> "", detail |-> "absent"]
NoJson == [blank |-> FALSE, parses |-> FALSE, error |-> FALSE, code |-> "", detail |-> "absent"]
Success == [blank |-> FALSE, parses |-> TRUE, error |-> FALSE, code |-> "", detail |-> "absent"]
ErrorOutputs(cs) ==
  [blank : {FALSE}, parses : {TRUE}, error : {TRUE}, code : cs,
   detail : {"absent", "text", "otpflag"}]

\* the detail text matters to the code only under E401; every code also comes bare
Outputs(cs) ==
  {o \in ErrorOutputs(cs) : o.code = "E401" \/ o.detail = "absent" \/
                               (o.code = "E500" /\ o.detail = "text")}

PublishOutputs == {NoJson, Success} \cup Outputs({"EOTP", "E401", "E500"})
InfoOutputs == {Blank, NoJson, Success} \cup Outputs({"E404", "E500"})

\* json.error.code === "EOTP" || (json.error.code === "E401" &&
\*   json.error.detail.includes("--otp=<code>")): "TypeError" when detail is undefined
IsOtpError(out) ==
  IF out.code = "EOTP" THEN "yes"
  ELSE IF out.code = "E401"
       THEN IF out.detail = "absent" THEN "TypeError"
            ELSE IF out.detail = "otpflag" THEN "yes" ELSE "no"
       ELSE "no"

(* --- the calls ------------------------------------------------------------ *)
\* A publish call: where its chain waits (pc), the token its current attempt was
\* spawned with (sent, 0 is no --otp flag), whether it is a retry, and of its last
\* OTP rejection the token the rejected attempt had been spawned with (had) and
\* the number of tokens supplied by then (mark).
NewCall == [pc |-> "qRequest", sent |-> 0, retry |-> FALSE, had |-> 0, mark |-> 0]

Put(b, c) == b (+) SetToBag({c})
Take(b, c) == b (-) SetToBag({c})
At(b, p) == {c \in BagToSet(b) : c.pc = p}
Count(b, p) ==
  LET S == At(b, p)
      RECURSIVE Sum(_)
      Sum(T) == IF T = {} THEN 0
                ELSE LET c == CHOOSE x \in T : TRUE IN CopiesIn(c, b) + Sum(T \ {c})
  IN Sum(S)

\* op and out: the spawn that returned; res: what the handler did; sent and retry:
\* those of the call it belongs to; was: twoFactorState.token as the handler found it
NoEvent == [op |-> "none", out |-> Blank, res |-> "none", sent |-> 0, retry |-> FALSE,
            was |-> 0]

Event(op, out, res, c) ==
  [op |-> op, out |-> out, res |-> res, sent |-> c.sent, retry |-> c.retry, was |-> token]

\* The part of the state a continuation works on.
World ==
  [rl |-> npmRequestLimit, pl |-> npmPublishLimit, ol |-> otpAskLimit,
   ic |-> infoCalls, cs |-> calls, tk |-> token, sp |-> supplied, pr |-> prompts]

Becomes(w) ==
  /\ npmRequestLimit' = w.rl
  /\ npmPublishLimit' = w.pl
  /\ otpAskLimit' = w.ol
  /\ infoCalls' = w.ic
  /\ calls' = w.cs
  /\ token' = w.tk
  /\ supplied' = w.sp
  /\ prompts' = w.pr


\* what `await twoFactorState.isRequired` gives now ("pending": nothing yet)
Resolves == IF isRequired = "given" THEN given ELSE isRequired

\* the token the TwoFactorState was made with: every later one answers a prompt
Tok0 == supplied - (prompts - Count(calls, "ask"))

\* the calls that have passed the publish gate and not settled
Admitted(b) == BagCardinality(b) - Count(b, "qRequest") - Count(b, "qPublish")

(* --- publish: the two nested gates (lines 240-250) ------------------------ *)
\* as EnterPublishLimit, had publish called internalPublish without the publish gate
EnterPublishLimitUngated(w, c) ==
  [w EXCEPT !.pl.activeCount = @ + 1, !.cs = Put(@, [c EXCEPT !.pc = "tool"])]

\* the fn given to npmRequestLimit runs: it calls npmPublishLimit(...), whose fn
\* is internalPublish, which first awaits getPublishTool
EnterPublishLimit(w, c) ==
  [w EXCEPT !.pl = Enter(@, PublishConcurrency),
            !.cs = Put(@, [c EXCEPT !.pc = IF HasSlot(w.pl, PublishConcurrency)
                                            THEN "tool" ELSE "qPublish"])]

EnterRequestLimit(w, c) ==
  IF HasSlot(w.rl, RequestConcurrency)
  THEN EnterPublishLimit([w EXCEPT !.rl = Enter(@, RequestConcurrency)], c)
  ELSE [w EXCEPT !.rl = Enter(@, RequestConcurrency), !.cs = Put(@, c)]

\* as LeavePublishLimit, had the gate kept the slot of a settled fn
LeavePublishLimitLeak(w) == {w}

\* internalPublish settled: the inner gate passes its slot on, then the outer one
LeavePublishLimit(w) ==
  IF w.pl.pendingCount > 0
  THEN {[w EXCEPT !.pl = Leave(@), !.cs = Put(Take(@, q), [q EXCEPT !.pc = "tool"])] :
          q \in At(w.cs, "qPublish")}
  ELSE {[w EXCEPT !.pl = Leave(@)]}

LeaveRequestLimit(w) ==
  IF w.rl.pendingCount = 0
  THEN {[w EXCEPT !.rl = Leave(@)]}
  ELSE {[w EXCEPT !.rl = Leave(@),
                  !.ic = [queued |-> @.queued - 1, running |-> @.running + 1]] :
          x \in IF w.ic.queued > 0 THEN {1} ELSE {}}
       \cup {EnterPublishLimit([w EXCEPT !.rl = Leave(@), !.cs = Take(@, q)], q) :
               q \in At(w.cs, "qRequest")}

\* as SettlePublish, had the call set the token to null on its way out
SettlePublishClears(w, c) ==
  UNION {LeaveRequestLimit(v) :
           v \in LeavePublishLimit([w EXCEPT !.cs = Take(@, c), !.tk = 0])}

\* the promise of publish settles for call c (c is still in w.cs)
SettlePublish(w, c) ==
  UNION {LeaveRequestLimit(v) : v \in LeavePublishLimit([w EXCEPT !.cs = Take(@, c)])}

(* --- OTP acquisition (lines 150-169) -------------------------------------- *)
\* line 206: the tool is spawned with the arguments built so far (c is not in w.cs)
Spawn(w, c, otpCode) == [w EXCEPT !.cs = Put(@, [c EXCEPT !.pc = "spawn", !.sent = otpCode])]

\* lines 155-159: the operator is asked, the fn keeps its slot (c is not in w.cs)
Ask(w, c) == [w EXCEPT !.pr = @ + 1, !.cs = Put(@, [c EXCEPT !.pc = "ask"])]

\* as LeaveOtpAskLimit, had the gate kept the slot of a settled fn
LeaveOtpAskLimitStuck(w) == {w}

\* the queued fns run one after the other, each finds the token set, returns it
\* (line 154), and its caller spawns: the calls in b that waited at the gate are
\* spawned with otpCode
Drained(b, otpCode) ==
  LET waiting == At(b, "qOtp")
      spawned(q) == [q EXCEPT !.pc = "spawn", !.sent = otpCode]
      others == [c \in BagToSet(b) \ waiting |-> CopiesIn(c, b)]
      moved == [c \in {spawned(q) : q \in waiting} |->
                  CopiesIn(CHOOSE q \in waiting : spawned(q) = c, b)]
  IN others (+) moved

\* otpAskLimit passes the slot on.  A queued fn that finds the token set returns it
\* (line 154), its caller spawns, and the slot moves on again, until the queue is
\* empty; one that finds it null asks.
LeaveOtpAskLimit(w) ==
  IF w.ol.pendingCount = 0
  THEN {[w EXCEPT !.ol = Leave(@)]}
  ELSE IF w.tk # 0
       THEN {[w EXCEPT !.ol = [activeCount |-> @.activeCount - 1, pendingCount |-> 0],
                       !.cs = Drained(@, w.tk)]}
       ELSE {Ask([w EXCEPT !.ol = Leave(@), !.cs = Take(@, q)], q) : q \in At(w.cs, "qOtp")}

\* as AskForOtpCode, had the fn not been given to otpAskLimit
AskForOtpCodeUngated(w, c) == Ask(w, c)

\* askForOtpCode: the fn runs at once when the slot is free (line 154 sees what
\* getOtpCode just saw, null), else it is queued
AskForOtpCode(w, c) ==
  IF HasSlot(w.ol, OtpConcurrency)
  THEN Ask([w EXCEPT !.ol = Enter(@, OtpConcurrency)], c)
  ELSE [w EXCEPT !.ol = Enter(@, OtpConcurrency), !.cs = Put(@, [c EXCEPT !.pc = "qOtp"])]

\* as GetOtpCode, without lines 165-167
GetOtpCodeAlwaysAsk(w, c) == AskForOtpCode(w, c)

\* getOtpCode, and line 194 with what it returned
GetOtpCode(w, c) ==
  IF w.tk # 0 THEN Spawn(w, c, w.tk) ELSE AskForOtpCode(w, c)

\* as AfterIsRequired, had lines 192-195 been left out
AfterIsRequiredNoOtp(w, c, required) == Spawn(w, c, 0)

\* lines 192-206 once `await twoFactorState.isRequired` has its value
AfterIsRequired(w, c, required) ==
  IF required /\ ~isCI THEN GetOtpCode(w, c) ELSE Spawn(w, c, 0)

(* --- result handling (lines 213-237) -------------------------------------- *)
\* as PublishOutcome, without the `&& !isCI` of line 222
PublishOutcomeRetryInCI(out) ==
  IF ~out.parses THEN "SyntaxError"
  ELSE IF ~out.error THEN "published"
  ELSE IF IsOtpError(out) = "TypeError" THEN "TypeError"
  ELSE IF IsOtpError(out) = "yes" THEN "retry"
  ELSE "failed"

PublishOutcome(out) ==
  IF ~out.parses THEN "SyntaxError"
  ELSE IF ~out.error THEN "published"
  ELSE IF IsOtpError(out) = "TypeError" THEN "TypeError"
  ELSE IF IsOtpError(out) = "yes" /\ ~isCI THEN "retry"
  ELSE "failed"

\* as ResolvedTrue, had line 229 resolved the promise to false
ResolvedFalse == "false"

\* line 229: twoFactorState.isRequired = Promise.resolve(true)
ResolvedTrue == "true"

\* as ClearedToken, had lines 224-227 been left out
KeptToken(tk) == tk

\* lines 224-227
ClearedToken(tk) == IF tk # 0 THEN 0 ELSE tk

\* as Retry, had line 230 called publish, which queues at the gates again
RetryRequeued(w, c, out) ==
  [w EXCEPT !.tk = ClearedToken(@),
            !.cs = Put(Take(@, c), [c EXCEPT !.pc = "qPublish", !.sent = 0, !.retry = TRUE,
                                             !.had = c.sent, !.mark = w.sp])]

\* as Retry, had line 230 spawned the tool again with the arguments it had
RetryResends(w, c, out) ==
  [w EXCEPT !.tk = ClearedToken(@),
            !.cs = Put(Take(@, c), [c EXCEPT !.retry = TRUE, !.had = c.sent, !.mark = w.sp])]

\* lines 224-230: the retry edge, internalPublish is entered again
Retry(w, c, out) ==
  [w EXCEPT !.tk = ClearedToken(@),
            !.cs = Put(Take(@, c), [c EXCEPT !.pc = "tool", !.sent = 0, !.retry = TRUE,
                                             !.had = c.sent, !.mark = w.sp])]

(* --- getPackageInfo (lines 99-128) ---------------------------------------- *)
\* as InfoOutcome, had lines 119-125 been left out
InfoOutcomeBlankParsed(out) ==
  IF ~out.parses THEN "SyntaxError"
  ELSE IF out.error THEN out.code
  ELSE "info"

InfoOutcome(out) ==
  IF out.blank THEN "E404"
  ELSE IF ~out.parses THEN "SyntaxError"
  ELSE IF out.error THEN out.code
  ELSE "info"

(* --- actions ---------------------------------------------------------------- *)
GetPackageInfo ==
  /\ infoCalls.queued + infoCalls.running < limit.info
  /\ npmRequestLimit' = Enter(npmRequestLimit, RequestConcurrency)
  /\ infoCalls' = IF HasSlot(npmRequestLimit, RequestConcurrency)
                  THEN [infoCalls EXCEPT !.running = @ + 1]
                  ELSE [infoCalls EXCEPT !.queued = @ + 1]
  /\ event' = NoEvent
  /\ UNCHANGED <<isCI, token, isRequired, given, supplied, prompts, npmPublishLimit,
                 otpAskLimit, calls, limit, made, rejections, otpCodes>>

\* the spawned npm info returned (line 109) and its output is handled
InfoReturns(out) ==
  /\ infoCalls.running > 0
  /\ \E w \in LeaveRequestLimit([World EXCEPT !.ic.running = @ - 1]) : Becomes(w)
  /\ event' = Event("info", out, InfoOutcome(out), NewCall)
  /\ UNCHANGED <<isCI, isRequired, given, limit, made, rejections, otpCodes>>

Publish ==
  /\ made < limit.publish
  /\ made' = made + 1
  /\ Becomes(EnterRequestLimit(World, NewCall))
  /\ event' = NoEvent
  /\ UNCHANGED <<isCI, isRequired, given, limit, rejections, otpCodes>>

\* getTokenIsRequired settles (lines 83-97): false, or whether the mode is
\* auth-and-writes, or the error of jsonParse
IsRequiredSettles(v) ==
  /\ given = "pending"
  /\ given' = v
  /\ event' = NoEvent
  /\ UNCHANGED <<isCI, token, isRequired, supplied, prompts, npmRequestLimit,
                 npmPublishLimit, otpAskLimit, infoCalls, calls, limit, made, rejections, otpCodes>>

\* await twoFactorState.isRequired threw: internalPublish rejects
Rejects(c) ==
  /\ \E w \in SettlePublish(World, c) : Becomes(w)
  /\ event' = Event("publish", Blank, "Rejected", c)
  /\ UNCHANGED <<isCI, isRequired, given, limit, made, rejections, otpCodes>>

\* lines 192-206 for call c with the settled value of the promise
Continues(c, promise) ==
  IF promise = "rejected"
  THEN Rejects(c)
  ELSE /\ Becomes(AfterIsRequired([World EXCEPT !.cs = Take(@, c)], c, promise = "true"))
       /\ event' = NoEvent
       /\ UNCHANGED <<isCI, isRequired, given, limit, made, rejections, otpCodes>>

\* getPublishTool returned (line 178); line 192 reads twoFactorState.isRequired
ToolDetected(c) ==
  /\ c \in At(calls, "tool")
  /\ LET promise == Resolves IN
       IF promise = "pending"
       THEN /\ calls' = Put(Take(calls, c), [c EXCEPT !.pc = "req"])
            /\ event' = NoEvent
            /\ UNCHANGED <<isCI, token, isRequired, given, supplied, prompts,
                           npmRequestLimit, npmPublishLimit, otpAskLimit, infoCalls,
                           limit, made, rejections, otpCodes>>
       ELSE Continues(c, promise)

\* the promise read at line 192 while it was pending has settled
IsRequiredAwaited(c) ==
  /\ c \in At(calls, "req")
  /\ given # "pending"
  /\ Continues(c, given)

\* askQuestion returned (lines 159-161), the caller spawns with the answer
OtpAnswered(c) ==
  /\ c \in At(calls, "ask")
  /\ LET w == [World EXCEPT !.cs = Take(@, c), !.sp = @ + 1, !.tk = supplied + 1]
     IN \E v \in LeaveOtpAskLimit(Spawn(w, c, w.tk)) : Becomes(v)
  /\ event' = NoEvent
  /\ UNCHANGED <<isCI, isRequired, given, limit, made, rejections, otpCodes>>

\* the spawned publish returned (line 206) and its output is handled
PublishReturns(c, out) ==
  /\ c \in At(calls, "spawn")
  /\ PublishOutcome(out) = "retry" => rejections < limit.otp
  /\ event' = Event("publish", out, PublishOutcome(out), c)
  /\ IF PublishOutcome(out) = "retry"
     THEN /\ Becomes(Retry(World, c, out))
          /\ isRequired' = ResolvedTrue
          /\ rejections' = rejections + 1
          /\ otpCodes' = otpCodes \cup {out.code}
          /\ UNCHANGED <<isCI, given, limit, made>>
     ELSE /\ \E w \in SettlePublish(World, c) : Becomes(w)
          /\ UNCHANGED <<isCI, isRequired, given, limit, made, rejections, otpCodes>>

\* a session: the CI signal, the TwoFactorState the caller made, and the load
Profile(ci, tokens, promises, l) ==
  /\ isCI \in ci
  /\ token \in tokens
  /\ supplied = token
  /\ isRequired = "given"
  /\ given \in promises
  /\ prompts = 0
  /\ npmRequestLimit = IdleGate
  /\ npmPublishLimit = IdleGate
  /\ otpAskLimit = IdleGate
  /\ infoCalls = [queued |-> 0, running |-> 0]
  /\ calls = EmptyBag
  /\ limit = l
  /\ made = 0
  /\ rejections = 0
  /\ otpCodes = {}
  /\ event = NoEvent

\* no function is applied alone
NoInput == [fn |-> "none"]
NoOutput == [kind |-> "none"]

Init ==
  /\ Profile(BOOLEAN, {0, 1}, {"pending", "true", "false"},
             [info |-> MaxInfo, publish |-> MaxPublish, otp |-> MaxOtpErrors])
  /\ input = NoInput
  /\ output = NoOutput

\* sessions that fill the request gate or the publish gate
InitLoad ==
  /\ \/ Profile({FALSE}, {0}, {"pending"},
                [info |-> LoadInfo, publish |-> MaxPublish, otp |-> 0])
     \/ Profile({FALSE}, {0}, {"pending"},
                [info |-> MaxInfo, publish |-> LoadPublish, otp |-> 0])
  /\ input = NoInput
  /\ output = NoOutput

Next ==
  /\ \/ GetPackageInfo
     \/ \E out \in InfoOutputs : InfoReturns(out)
     \/ Publish
     \/ \E v \in {"true", "false", "rejected"} : IsRequiredSettles(v)
     \/ \E c \in BagToSet(calls) : ToolDetected(c)
     \/ \E c \in BagToSet(calls) : IsRequiredAwaited(c)
     \/ \E c \in BagToSet(calls) : OtpAnswered(c)
     \/ \E c \in BagToSet(calls), out \in PublishOutputs : PublishReturns(c, out)
  /\ UNCHANGED <<input, output>>

Spec == Init /\ [][Next]_vars

SpecLoad == InitLoad /\ [][Next]_vars

(* --- the orchestration when every wait ends ------------------------------- *)
\* the steps that are not a caller's: a spawned process returns, the operator
\* answers, a promise settles
Completes ==
  /\ \/ \E out \in InfoOutputs : InfoReturns(out)
     \/ \E v \in {"true", "false", "rejected"} : IsRequiredSettles(v)
     \/ \E c \in BagToSet(calls) : ToolDetected(c)
     \/ \E c \in BagToSet(calls) : IsRequiredAwaited(c)
     \/ \E c \in BagToSet(calls) : OtpAnswered(c)
     \/ \E c \in BagToSet(calls), out \in PublishOutputs : PublishReturns(c, out)
  /\ UNCHANGED <<input, output>>

\* sessions that fill the request gate, or the publish gate with every call in
\* need of a token, and one with OTP rejections
InitLive ==
  /\ \/ Profile({FALSE}, {0}, {"pending"},
                [info |-> LoadInfo, publish |-> MaxPublish, otp |-> 0])
     \/ Profile({FALSE}, {0}, {"true"}, [info |-> 0, publish |-> LoadPublish, otp |-> 0])
     \/ Profile({FALSE}, {0}, {"false"},
                [info |-> 0, publish |-> MaxPublish, otp |-> MaxOtpErrors])
  /\ input = NoInput
  /\ output = NoOutput

\* the callers have made their last call
CallersStop ==
  /\ limit.info > 0 \/ limit.publish > made
  /\ limit' = [limit EXCEPT !.info = 0, !.publish = made]
  /\ event' = NoEvent
  /\ UNCHANGED <<isCI, token, isRequired, given, supplied, prompts, npmRequestLimit,
                 npmPublishLimit, otpAskLimit, infoCalls, calls, made, rejections,
                 otpCodes, input, output>>

NextLive == Next \/ CallersStop

\* there is no timeout: a wait ends when the process returns or the operator
\* answers, which they are taken to do
SpecLive == InitLive /\ [][NextLive]_vars /\ WF_vars(Completes)

(* --- the functions of the module, each applied alone ---------------------- *)
Returned(v) == [kind |-> "return", value |-> v]
Thrown(e) == [kind |-> "throw", error |-> e]

\* infoAllow404 (lines 130-148) on the stdout of npm info
InfoAllow404(out) ==
  LET pkgInfo == InfoOutcome(out) IN
    IF pkgInfo = "SyntaxError" THEN Thrown("SyntaxError")
    ELSE IF pkgInfo = "E404" THEN Returned([published |-> FALSE, pkgInfo |-> "{}"])
    ELSE IF pkgInfo # "info" THEN Thrown("ExitError")
    ELSE Returned([published |-> TRUE, pkgInfo |-> "pkgInfo"])

\* what npm info prints: also errors with other codes, and with no code
InfoStdouts == InfoOutputs \cup ErrorOutputs({"", "E404", "E403", "E500"})

ApplyInfoAllow404 ==
  /\ input.fn = "infoAllow404"
  /\ output = NoOutput
  /\ output' = InfoAllow404(input.stdout)
  /\ UNCHANGED <<program, input>>

\* getCorrectRegistry (lines 27-34).  A value that may be missing is "undefined".
Mirror == "https://registry.yarnpkg.com"
Canonical == "https://registry.npmjs.org"
Registries == {"undefined", "", Mirror, "https://a.example", "https://b.example"}

\* the packageJson argument: not passed, without publishConfig, or with one
PackageJsons ==
  {[given |-> FALSE, publishConfig |-> FALSE, registry |-> "undefined"],
   [given |-> TRUE, publishConfig |-> FALSE, registry |-> "undefined"]}
  \cup [given : {TRUE}, publishConfig : {TRUE}, registry : Registries]

\* packageJson?.publishConfig?.registry
PublishConfigRegistry(packageJson) ==
  IF ~packageJson.given THEN "undefined"
  ELSE IF ~packageJson.publishConfig THEN "undefined"
  ELSE packageJson.registry

\* as GetCorrectRegistry, had line 29 been written with || for ??
GetCorrectRegistryOr(packageJson, env) ==
  LET own == PublishConfigRegistry(packageJson)
      registry == IF own \in {"undefined", ""} THEN env ELSE own
  IN IF registry \in {"undefined", ""} \/ registry = Mirror THEN Canonical ELSE registry

GetCorrectRegistry(packageJson, env) ==
  LET own == PublishConfigRegistry(packageJson)
      registry == IF own = "undefined" THEN env ELSE own
  IN IF registry \in {"undefined", ""} \/ registry = Mirror THEN Canonical ELSE registry

ApplyGetCorrectRegistry ==
  /\ input.fn = "getCorrectRegistry"
  /\ output = NoOutput
  /\ output' = Returned(GetCorrectRegistry(input.packageJson, input.env))
  /\ UNCHANGED <<program, input>>

\* getPublishTool (lines 41-81).  What preferredPM resolves to: undefined, or the
\* name of a package manager
PreferredPMs == {"undefined", "npm", "pnpm", "yarn", "bun"}

\* what `<tool> --version` prints, trimmed: the numbers between the dots
VersionStdouts ==
  {<<>>} \cup {<<m>> : m \in 0..MaxMajor} \cup {<<m, 0, 0>> : m \in 0..MaxMajor}

\* the version probe: spawn rejects, or resolves with a stdout
Probes == [fails : {TRUE}, stdout : {<<>>}] \cup [fails : {FALSE}, stdout : VersionStdouts]

\* semver.parse: null unless the text is major.minor.patch
SemverParse(version) ==
  IF Len(version) = 3 THEN [valid |-> TRUE, major |-> version[1]]
  ELSE [valid |-> FALSE, major |-> 0]

\* parsed?.major === undefined ? false : parsed.major >= least
MajorAtLeast(parsed, least) == IF ~parsed.valid THEN FALSE ELSE parsed.major >= least

\* as GetPublishTool, without the try/catch around the probes
GetPublishToolNoCatch(pm, probe) ==
  IF pm = "pnpm"
  THEN IF probe.fails THEN Thrown("ChildProcessError")
       ELSE Returned([name |-> "pnpm",
                      shouldAddNoGitChecks |-> MajorAtLeast(SemverParse(probe.stdout), 5)])
  ELSE IF pm = "yarn"
  THEN IF probe.fails THEN Thrown("ChildProcessError")
       ELSE Returned([name |-> "yarn", berry |-> MajorAtLeast(SemverParse(probe.stdout), 2)])
  ELSE Returned([name |-> "npm"])

GetPublishTool(pm, probe) ==
  IF pm = "pnpm"
  THEN IF probe.fails THEN Returned([name |-> "pnpm", shouldAddNoGitChecks |-> FALSE])
       ELSE Returned([name |-> "pnpm",
                      shouldAddNoGitChecks |-> MajorAtLeast(SemverParse(probe.stdout), 5)])
  ELSE IF pm = "yarn"
  THEN IF probe.fails THEN Returned([name |-> "yarn", berry |-> FALSE])
       ELSE Returned([name |-> "yarn", berry |-> MajorAtLeast(SemverParse(probe.stdout), 2)])
  ELSE Returned([name |-> "npm"])

ApplyGetPublishTool ==
  /\ input.fn = "getPublishTool"
  /\ output = NoOutput
  /\ output' = GetPublishTool(input.pm, input.probe)
  /\ UNCHANGED <<program, input>>

\* The stdout of a publish attempt (lines 206-213) is a sequence of pieces: white
\* space, hook output with no "{" in it, hook output that has a "{", and the text
\* of a JSON object.
Piece(kind) == [kind |-> kind, json |-> NoJson]
ObjectPiece(out) == [kind |-> "object", json |-> out]
Pieces ==
  {Piece("space"), Piece("text"), Piece("brace")}
  \cup {ObjectPiece(o) : o \in {Success} \cup Outputs({"EOTP", "E500"})}

RECURSIVE SeqsUpTo(_, _)
SeqsUpTo(S, n) ==
  IF n = 0 THEN {<<>>}
  ELSE LET T == SeqsUpTo(S, n - 1) IN T \cup {Append(t, x) : t \in T, x \in S}

PublishStdouts == SeqsUpTo(Pieces, MaxPieces)

HasBrace(piece) == piece.kind \in {"brace", "object"}

\* as StripPrefix, had line 213 parsed the stdout as it is
StripNothing(stdout) == stdout

\* stdout.toString().replace(/[^{]*/, ""): the longest start with no "{" goes
RECURSIVE StripPrefix(_)
StripPrefix(stdout) ==
  IF stdout = <<>> \/ HasBrace(Head(stdout)) THEN stdout ELSE StripPrefix(Tail(stdout))

\* JSON.parse by way of jsonParse (lines 16-25): the text is one JSON value with
\* white space around it, or SyntaxError is thrown, here NoJson
RECURSIVE JsonParse(_)
JsonParse(text) ==
  IF text = <<>> THEN NoJson
  ELSE IF Head(text).kind = "space" THEN JsonParse(Tail(text))
  ELSE IF Head(text).kind = "object" /\ \A i \in 2..Len(text) : text[i].kind = "space"
       THEN Head(text).json
  ELSE NoJson

\* lines 213-237 on a stdout and the twoFactorState of the state: what the attempt
\* comes to, "retry" for line 230
ApplyHandleStdout ==
  /\ input.fn = "handleStdout"
  /\ output = NoOutput
  /\ LET res == PublishOutcome(JsonParse(StripPrefix(input.stdout))) IN
       /\ output' = IF res = "published" THEN Returned([published |-> TRUE])
                     ELSE IF res = "failed" THEN Returned([published |-> FALSE])
                     ELSE IF res = "retry" THEN [kind |-> "retry"]
                     ELSE Thrown(res)
       /\ token' = IF res = "retry" THEN ClearedToken(token) ELSE token
       /\ isRequired' = IF res = "retry" THEN ResolvedTrue ELSE isRequired
  /\ UNCHANGED <<isCI, given, supplied, prompts, npmRequestLimit, npmPublishLimit,
                 otpAskLimit, infoCalls, calls, limit, made, rejections, otpCodes, event,
                 input>>

\* The argument vector of a publish attempt (lines 179-199).  An argument is a
\* text, or the OTP code acquired.
Arg(text) == [text |-> text, otp |-> 0]
OtpArg(otpCode) == [text |-> "<otp>", otp |-> otpCode]

PublishTools ==
  {[name |-> "npm"]}
  \cup [name : {"pnpm"}, shouldAddNoGitChecks : BOOLEAN]
  \cup [name : {"yarn"}, berry : BOOLEAN]

\* opts: cwd and tag are always there, access may be missing or empty
Opts == [cwd : {"<cwd>"}, access : {"undefined", "", "public"}, tag : {"<tag>"}]

\* as PublishArgs, with lines 197-199 before lines 192-195
PublishArgsChecksFirst(publishTool, opts, otp) ==
  (IF publishTool.name = "yarn" /\ publishTool.berry THEN <<Arg("npm")>> ELSE <<>>)
  \o <<Arg("publish"), Arg(opts.cwd), Arg("--json")>>
  \o (IF opts.access \notin {"undefined", ""}
      THEN <<Arg("--access"), Arg(opts.access)>> ELSE <<>>)
  \o <<Arg("--tag"), Arg(opts.tag)>>
  \o (IF publishTool.name = "pnpm" /\ publishTool.shouldAddNoGitChecks
      THEN <<Arg("--no-git-checks")>> ELSE <<>>)
  \o (IF otp.push THEN <<Arg("--otp"), OtpArg(otp.code)>> ELSE <<>>)

\* otp: whether lines 192-195 push, and the code getOtpCode returned
PublishArgs(publishTool, opts, otp) ==
  (IF publishTool.name = "yarn" /\ publishTool.berry THEN <<Arg("npm")>> ELSE <<>>)
  \o <<Arg("publish"), Arg(opts.cwd), Arg("--json")>>
  \o (IF opts.access \notin {"undefined", ""}
      THEN <<Arg("--access"), Arg(opts.access)>> ELSE <<>>)
  \o <<Arg("--tag"), Arg(opts.tag)>>
  \o (IF otp.push THEN <<Arg("--otp"), OtpArg(otp.code)>> ELSE <<>>)
  \o (IF publishTool.name = "pnpm" /\ publishTool.shouldAddNoGitChecks
      THEN <<Arg("--no-git-checks")>> ELSE <<>>)

\* lines 179-206 for one call, alone, on the twoFactorState of the state: if the
\* operator is asked, the answer is the next token
ApplyPublishArgs ==
  /\ input.fn = "publishArgs"
  /\ output = NoOutput
  /\ LET w == AfterIsRequired(World, NewCall, Resolves = "true")
         c == CHOOSE x \in BagToSet(w.cs) : TRUE
         asked == c.pc = "ask"
         otp == IF asked THEN [push |-> TRUE, code |-> supplied + 1]
                ELSE [push |-> c.sent # 0, code |-> c.sent]
     IN /\ output' = Returned(PublishArgs(input.publishTool, input.opts, otp))
        /\ prompts' = w.pr
        /\ supplied' = IF asked THEN supplied + 1 ELSE supplied
        /\ token' = IF asked THEN supplied + 1 ELSE token
  /\ UNCHANGED <<isCI, isRequired, given, npmRequestLimit, npmPublishLimit, otpAskLimit,
                 infoCalls, calls, limit, made, rejections, otpCodes, event, input>>

FnInputs ==
  [fn : {"infoAllow404"}, stdout : InfoStdouts]
  \cup [fn : {"publishArgs"}, publishTool : PublishTools, opts : Opts]
  \cup [fn : {"handleStdout"}, stdout : PublishStdouts]
  \cup [fn : {"getPublishTool"}, pm : PreferredPMs, probe : Probes]
  \cup [fn : {"getCorrectRegistry"}, packageJson : PackageJsons, env : Registries]

\* the environment and the twoFactorState the function is applied in
InitFn ==
  /\ Profile(BOOLEAN, {0, 1}, {"true", "false"}, [info |-> 0, publish |-> 0, otp |-> 0])
  /\ input \in FnInputs
  /\ output = NoOutput

NextFn ==
  \/ ApplyInfoAllow404
  \/ ApplyGetCorrectRegistry
  \/ ApplyGetPublishTool
  \/ ApplyHandleStdout
  \/ ApplyPublishArgs

SpecFn == InitFn /\ [][NextFn]_vars

(* ------------------------------------------------------------------------- *)
(* The claims                                                                *)
(* ------------------------------------------------------------------------- *)

\* C1: whatever the number of getPackageInfo and publish calls, at most 40 units
\* (getPackageInfo bodies and publish calls, from admission to their result) are
\* inside the request gate, at most 10 internalPublish chains inside the publish
\* gate, and at most 1 prompt routine is executing.
C1_GatesBounded ==
  /\ npmRequestLimit.activeCount <= 40
  /\ infoCalls.running + BagCardinality(calls) - Count(calls, "qRequest") <= 40
  /\ npmPublishLimit.activeCount <= 10
  /\ Admitted(calls) <= 10
  /\ otpAskLimit.activeCount <= 1
  /\ Count(calls, "ask") <= 1

\* the publish gate and the prompt gate are both full and both have a queue
C1_Witness ==
  /\ Admitted(calls) = 10
  /\ Count(calls, "qPublish") >= 1
  /\ Count(calls, "ask") = 1
  /\ Count(calls, "qOtp") >= 1

\* the request gate is full of getPackageInfo bodies and publish calls, and has a queue
C1_RequestGateFull ==
  /\ infoCalls.running + BagCardinality(calls) - Count(calls, "qRequest") = 40
  /\ infoCalls.running > 0
  /\ Admitted(calls) > 0
  /\ npmRequestLimit.pendingCount >= 1

\* the session has one publish call, outside CI
SingleCall == made = 1 /\ ~isCI

\* C2: a single publish call outside CI that starts with no token and isRequired
\* resolving false, whose first output is an EOTP error and whose second output
\* has no error: isRequired resolves true once the first attempt has ended, the
\* operator is prompted exactly once, between the two attempts, and the call
\* returns {published: true}.
C2_RetryAfterEOTP ==
  (SingleCall /\ Tok0 = 0 /\ given = "false") =>
    /\ (event.op = "publish" /\ event.out.code = "EOTP") =>
         (event.res = "retry" /\ Resolves = "true")
    /\ (rejections = 1 /\ otpCodes = {"EOTP"}) =>
         /\ Resolves = "true"
         /\ \A c \in BagToSet(calls) :
              /\ c.retry /\ c.mark = 0
              /\ prompts = IF c.pc \in {"ask", "spawn"} THEN 1 ELSE 0
              /\ c.pc = "spawn" => c.sent = 1
         /\ (event.op = "publish" /\ event.out = Success) =>
              /\ event.res = "published"
              /\ event.retry
              /\ prompts = 1
              /\ event.sent = 1
              /\ calls = EmptyBag

C2_Witness ==
  /\ SingleCall /\ Tok0 = 0 /\ given = "false"
  /\ rejections = 1 /\ otpCodes = {"EOTP"}
  /\ event.op = "publish"
  /\ event.retry
  /\ event.out = Success
  /\ event.res = "published"
  /\ prompts = 1

\* C3: a single publish call outside CI whose TwoFactorState holds a token: an
\* attempt that returns E401 with the OTP flag text in its detail sets the token
\* to null, and exactly one prompt is issued before the next attempt is spawned.
C3_InvalidatedToken ==
  SingleCall =>
    /\ (/\ event.op = "publish"
        /\ event.was # 0
        /\ event.out.code = "E401"
        /\ event.out.detail = "otpflag") =>
         /\ event.res = "retry"
         /\ token = 0
         /\ \A c \in BagToSet(calls) : c.pc = "tool" /\ prompts = c.mark - Tok0
    /\ \A c \in BagToSet(calls) :
         (c.retry /\ c.mark # 0) =>
            /\ c.pc \in {"tool", "req"} => (token = 0 /\ prompts = c.mark - Tok0)
            /\ c.pc = "ask" => (token = 0 /\ prompts = c.mark - Tok0 + 1)
            /\ c.pc = "spawn" => (prompts = c.mark - Tok0 + 1 /\ c.sent = c.mark + 1)
            /\ c.pc \in {"tool", "req", "ask", "spawn"}

\* the token the state was made with was rejected with E401, the operator was
\* asked once and the next attempt is spawned with the answer
C3_Witness ==
  /\ SingleCall
  /\ Tok0 = 1
  /\ rejections = 1 /\ otpCodes = {"E401"}
  /\ \E c \in BagToSet(calls) :
       c.retry /\ c.had = 1 /\ c.mark = 1 /\ c.pc = "spawn" /\ c.sent = 2 /\ prompts = 1

\* C4: in CI, whatever the TwoFactorState and the outputs: no prompt is issued, no
\* attempt carries --otp, no attempt is retried, and an attempt that returns EOTP
\* or E401 with the OTP flag text ends the call with {published: false}, after one
\* invocation of the tool.
C4_NoOtpInCI ==
  isCI =>
    /\ prompts = 0
    /\ otpAskLimit = IdleGate
    /\ rejections = 0
    /\ \A c \in BagToSet(calls) :
         c.sent = 0 /\ ~c.retry /\ c.pc \notin {"qOtp", "ask"}
    /\ event.op = "publish" =>
         /\ event.res # "retry"
         /\ event.sent = 0
         /\ ~event.retry
         /\ (event.out.error /\ IsOtpError(event.out) = "yes") =>
               event.res = "failed"

\* in CI, with a token known and OTP required, an EOTP error ends the call
C4_Witness ==
  /\ isCI
  /\ token = 1
  /\ Resolves = "true"
  /\ event.op = "publish"
  /\ event.out.code = "EOTP"
  /\ event.res = "failed"
  /\ calls = EmptyBag

\* C5: publish calls sharing one TwoFactorState, outside CI, that each started
\* with no token and each got EOTP for a first attempt spawned without --otp, in
\* any interleaving: the operator is prompted once in all and the next attempts
\* all carry the one answer.
C5_OnePromptForAll ==
  (/\ ~isCI /\ Tok0 = 0
   /\ made >= 2 /\ BagCardinality(calls) = made
   /\ rejections = made /\ otpCodes = {"EOTP"}
   /\ \A c \in BagToSet(calls) : c.pc = "spawn" /\ c.retry /\ c.had = 0) =>
    /\ prompts = 1
    /\ \A c, d \in BagToSet(calls) : c.sent = d.sent

\* C6: publish calls that share one TwoFactorState and run concurrently outside
\* CI (here: in a session that began without a token): the token is set to null
\* only by the handler of an attempt that was spawned with that very token.
C6_ClearedByItsOwnRejection ==
  (/\ Tok0 = 0 /\ BagCardinality(calls) >= 2
   /\ event.op = "publish" /\ event.res = "retry" /\ event.was # 0) =>
    event.sent = event.was

\* C7: once twoFactorState.isRequired resolves true it never resolves otherwise.
C7_RequiredStaysTrue == [][Resolves = "true" => Resolves' = "true"]_vars

\* the orchestrator made isRequired resolve true, the caller's promise says false
C7_Witness == given = "false" /\ rejections > 0 /\ Resolves = "true"

C9_OtherErrorsFail ==
  (/\ event.op = "publish"
   /\ event.out.parses /\ event.out.error
   /\ ~(\/ event.out.code = "EOTP"
        \/ event.out.code = "E401" /\ event.out.detail = "otpflag")) =>
    event.res = "failed"

\* C10: a gated unit that throws rejects the promise of its caller with that
\* error, and its slot is released in each gate that held it: the slots taken are
\* those of the units still running, and no fn is queued at a gate with a free slot.
C10_FailureReleases ==
  /\ (event.op = "publish" /\ ~event.out.parses /\ event.res # "Rejected") =>
        event.res = "SyntaxError"
  /\ (event.op = "info" /\ ~event.out.parses /\ ~event.out.blank) =>
        event.res = "SyntaxError"
  /\ npmPublishLimit.activeCount = Admitted(calls)
  /\ npmPublishLimit.pendingCount = Count(calls, "qPublish")
  /\ npmRequestLimit.activeCount =
       infoCalls.running + BagCardinality(calls) - Count(calls, "qRequest")
  /\ npmRequestLimit.pendingCount = infoCalls.queued + Count(calls, "qRequest")
  /\ npmPublishLimit.pendingCount > 0 => npmPublishLimit.activeCount = 10
  /\ npmRequestLimit.pendingCount > 0 => npmRequestLimit.activeCount = 40

\* a publish call threw on unparsable output while the publish gate was full with
\* a queue: the queued call has its slot
C10_Witness ==
  /\ event.op = "publish" /\ event.res = "SyntaxError"
  /\ made = 11
  /\ BagCardinality(calls) = 10
  /\ npmPublishLimit = [activeCount |-> 10, pendingCount |-> 0]
  /\ Admitted(calls) = 10

\* a getPackageInfo body threw while the request gate was full with a queue
C10_InfoWitness ==
  /\ event.op = "info" /\ event.res = "SyntaxError"
  /\ npmRequestLimit.activeCount = 40
  /\ infoCalls.running + BagCardinality(calls) >= 41

\* C11: infoAllow404 gives each result of npm info exactly one of three outcomes:
\* code E404, which a blank stdout counts as, returns {published: false,
\* pkgInfo: {}} and throws nothing; an error with any other code throws ExitError;
\* no error returns {published: true, pkgInfo}.
C11_InfoClassified ==
  (input.fn = "infoAllow404" /\ output # NoOutput) =>
    LET o == input.stdout
        notFound == o.blank \/ (o.parses /\ o.error /\ o.code = "E404")
        otherError == o.parses /\ o.error /\ o.code # "E404"
        noError == o.parses /\ ~o.error
    IN /\ notFound <=> output = Returned([published |-> FALSE, pkgInfo |-> "{}"])
       /\ otherError <=> output = Thrown("ExitError")
       /\ noError <=> output = Returned([published |-> TRUE, pkgInfo |-> "pkgInfo"])
       /\ (notFound \/ otherError \/ noError) <=> output # Thrown("SyntaxError")

\* a blank stdout was classified as not found
C11_Witness ==
  /\ input.fn = "infoAllow404"
  /\ input.stdout = Blank
  /\ output = Returned([published |-> FALSE, pkgInfo |-> "{}"])

\* a registry override that is there: neither missing nor empty
Present(registry) == registry \notin {"undefined", ""}

\* C12, as stated: getCorrectRegistry returns the package's own override when
\* present, else the environment's override when present and not the mirror URL,
\* else the canonical registry.
C12_RegistryAsStated ==
  (input.fn = "getCorrectRegistry" /\ output # NoOutput) =>
    LET own == PublishConfigRegistry(input.packageJson) IN
      output = Returned(IF Present(own) THEN own
                        ELSE IF Present(input.env) /\ input.env # Mirror THEN input.env
                        ELSE Canonical)

\* C12, amended: getCorrectRegistry returns the package's own override when it is
\* neither empty nor the mirror URL; it returns the environment's override when the
\* package has no override at all and the environment's is neither empty nor the
\* mirror URL; in every other case, also for a package override that is empty or
\* the mirror URL, it returns the canonical registry.
C12_Registry ==
  (input.fn = "getCorrectRegistry" /\ output # NoOutput) =>
    LET own == PublishConfigRegistry(input.packageJson) IN
      output = Returned(IF Present(own) /\ own # Mirror THEN own
                        ELSE IF own = "undefined" /\ Present(input.env) /\ input.env # Mirror
                             THEN input.env
                        ELSE Canonical)

\* the package names the mirror, the environment another registry: canonical
C12_Witness ==
  /\ input.fn = "getCorrectRegistry"
  /\ PublishConfigRegistry(input.packageJson) = Mirror
  /\ input.env = "https://b.example"
  /\ output = Returned(Canonical)

FirstBrace(stdout) ==
  IF \E i \in 1..Len(stdout) : HasBrace(stdout[i])
  THEN CHOOSE i \in 1..Len(stdout) :
         HasBrace(stdout[i]) /\ \A j \in 1..(i - 1) : ~HasBrace(stdout[j])
  ELSE 0

\* C14: a publish stdout with no "{", or whose text from the first "{" on is no
\* JSON value, makes the attempt throw the parse error: no {published: ...} is
\* returned, no retry is made and twoFactorState is as it was.  When a JSON object
\* follows a prefix with no "{", the outcome is that of the object alone.
C14_ParseOrThrow ==
  (input.fn = "handleStdout" /\ output # NoOutput) =>
    LET stdout == input.stdout
        b == FirstBrace(stdout)
        valid == /\ b # 0
                 /\ stdout[b].kind = "object"
                 /\ \A i \in (b + 1)..Len(stdout) : stdout[i].kind = "space"
    IN /\ ~valid =>
            /\ output = Thrown("SyntaxError")
            /\ token = supplied
            /\ isRequired = "given"
       /\ valid =>
            LET res == PublishOutcome(stdout[b].json) IN
              /\ res # "SyntaxError"
              /\ res = "published" <=> output = Returned([published |-> TRUE])
              /\ res = "failed" <=> output = Returned([published |-> FALSE])
              /\ res = "retry" <=> output = [kind |-> "retry"]

\* hook output, then the JSON of a successful publish
C14_Witness ==
  /\ input.fn = "handleStdout"
  /\ input.stdout = <<Piece("text"), ObjectPiece(Success), Piece("space")>>
  /\ output = Returned([published |-> TRUE])

\* hook output with a "{" before the JSON: the parse error is thrown
C14_ThrowWitness ==
  /\ input.fn = "handleStdout"
  /\ input.stdout = <<Piece("brace"), ObjectPiece(Success)>>
  /\ token = 1 /\ ~isCI
  /\ output = Thrown("SyntaxError")

\* the calls for which getOtpCode returns in this step: they are spawned with --otp
Returning ==
  {c \in BagToSet(calls') :
     c.pc = "spawn" /\ c.sent # 0 /\ CopiesIn(c, calls') > CopiesIn(c, calls)}

\* C15: getOtpCode on a known token returns it, and neither the prompt gate, nor
\* the prompts, nor the state change.  On no token the caller enters the
\* single-slot gate: it is queued while another prompt is open, and finds the
\* token set when its turn comes, or it prompts, the token being null still; the
\* answer is stored as the token and returned.  Whenever getOtpCode returns, the
\* token of the state is the value returned.
C15_GetOtpCode ==
  [][/\ \A c \in Returning : c.sent = token'
     /\ (Returning # {} /\ token # 0) =>
          /\ token' = token
          /\ supplied' = supplied
          /\ prompts' = prompts
          /\ otpAskLimit' = otpAskLimit
          /\ Cardinality(Returning) = 1
     /\ (Returning # {} /\ token = 0) =>
          /\ Count(calls, "ask") = 1
          /\ supplied' = supplied + 1
          /\ token' = supplied'
          /\ prompts' = prompts
          /\ Count(calls', "spawn") - Count(calls, "spawn") = 1 + otpAskLimit.pendingCount
          /\ otpAskLimit' = IdleGate
     /\ prompts' # prompts =>
          /\ prompts' = prompts + 1
          /\ token = 0 /\ token' = 0
          /\ otpAskLimit = IdleGate
          /\ otpAskLimit' = [activeCount |-> 1, pendingCount |-> 0]
     /\ otpAskLimit'.pendingCount > otpAskLimit.pendingCount =>
          /\ token = 0 /\ token' = 0
          /\ otpAskLimit.activeCount = 1
          /\ prompts' = prompts
     /\ token' # token => (token' = 0 \/ Returning # {})
    ]_vars

\* two calls needed a token, the operator was asked once, both are spawned with
\* the answer, which is the token of the state
C15_Witness ==
  /\ Tok0 = 0 /\ rejections = 0 /\ prompts = 1 /\ token = 1
  /\ otpAskLimit = IdleGate
  /\ \E c \in BagToSet(calls) : c.pc = "spawn" /\ c.sent = 1 /\ CopiesIn(c, calls) = 2

\* a call waits at the prompt gate while the operator is asked
C15_QueuedWitness ==
  /\ otpAskLimit = [activeCount |-> 1, pendingCount |-> 1]
  /\ Count(calls, "ask") = 1 /\ Count(calls, "qOtp") = 1
  /\ token = 0

\* the token was known: no prompt, the gate idle
C15_KnownWitness ==
  /\ Tok0 = 1 /\ prompts = 0 /\ token = 1 /\ otpAskLimit = IdleGate
  /\ \E c \in BagToSet(calls) : c.pc = "spawn" /\ c.sent = 1

\* the elements of seq at the positions in keep, in their order
RECURSIVE Kept(_, _, _)
Kept(seq, keep, i) ==
  IF i > Len(seq) THEN <<>>
  ELSE (IF i \in keep THEN <<seq[i]>> ELSE <<>>) \o Kept(seq, keep, i + 1)

\* C16: for every tool variant, access given or not, isRequired true or false, in
\* CI or not, the argument vector is, in this order: "npm" for yarn berry only;
\* "publish", the directory, "--json"; "--access" and its value if access was
\* asked for; "--tag" and the tag; "--otp" and the token acquired if isRequired
\* resolves true outside CI; "--no-git-checks" for pnpm with shouldAddNoGitChecks.
C16_ArgumentVector ==
  (input.fn = "publishArgs" /\ output # NoOutput) =>
    LET tool == input.publishTool
        all == <<Arg("npm"), Arg("publish"), Arg(input.opts.cwd), Arg("--json"),
                 Arg("--access"), Arg(input.opts.access), Arg("--tag"),
                 Arg(input.opts.tag), Arg("--otp"), OtpArg(token), Arg("--no-git-checks")>>
        keep == {2, 3, 4, 7, 8}
                \cup (IF tool = [name |-> "yarn", berry |-> TRUE] THEN {1} ELSE {})
                \cup (IF input.opts.access = "public" THEN {5, 6} ELSE {})
                \cup (IF given = "true" /\ ~isCI THEN {9, 10} ELSE {})
                \cup (IF tool = [name |-> "pnpm", shouldAddNoGitChecks |-> TRUE]
                      THEN {11} ELSE {})
    IN /\ output = Returned(Kept(all, keep, 1))
       /\ (given = "true" /\ ~isCI) => token # 0

\* pnpm 5, access asked for, the token asked of the operator: the longest vector
C16_Witness ==
  /\ input.fn = "publishArgs"
  /\ input.publishTool = [name |-> "pnpm", shouldAddNoGitChecks |-> TRUE]
  /\ input.opts.access = "public"
  /\ prompts = 1
  /\ output = Returned(<<Arg("publish"), Arg("<cwd>"), Arg("--json"), Arg("--access"),
                          Arg("public"), Arg("--tag"), Arg("<tag>"), Arg("--otp"),
                          OtpArg(1), Arg("--no-git-checks")>>)

\* a getPackageInfo or publish call has not returned
Busy == calls # EmptyBag \/ infoCalls.queued + infoCalls.running > 0

\* no call is made from here on
Stopped == limit.info = 0 /\ limit.publish = made

\* C17: when every spawned process returns, every prompt is answered and the
\* registry rejects for the OTP finitely often, then of any finite number of
\* calls submitted each comes to return or fail, queued ones being admitted on the
\* way; and while a call is in flight some wait can end: the gates never hold the
\* calls in a circle.
C17_EveryCallEnds ==
  /\ [](Busy => ENABLED <<Completes>>_vars)
  /\ (Stopped /\ Busy) ~> ~Busy

\* a call is queued at each of the three gates
C17_Witness ==
  /\ npmPublishLimit.pendingCount > 0
  /\ otpAskLimit.pendingCount > 0
  /\ Count(calls, "ask") = 1

\* the request gate has a queue of publish calls and getPackageInfo calls
C17_RequestQueueWitness ==
  /\ Count(calls, "qRequest") > 0
  /\ infoCalls.queued > 0

\* C18: outside CI, for any number of publish calls on one twoFactorState: the
\* step that handles an OTP rejection leaves the token null, and the attempt that
\* retries carries a token that was stored after that rejection, never one the
\* state held when the rejection was handled.
C18_RetrySendsLaterToken ==
  /\ (event.op = "publish" /\ event.res = "retry") => (~isCI /\ token = 0)
  /\ \A c \in BagToSet(calls) :
       c.retry =>
         /\ ~isCI
         /\ c.had <= c.mark
         /\ c.pc = "spawn" => (c.sent # 0 /\ c.sent > c.mark)
         /\ c.pc # "spawn" => c.sent = 0

\* of two calls one was rejected while the state held token 1, and retries with
\* token 2
C18_Witness ==
  /\ made = 2
  /\ \E c \in BagToSet(calls) :
       c.retry /\ c.pc = "spawn" /\ c.had = 0 /\ c.mark = 1 /\ c.sent = 2

\* C19: the operator has been prompted at most once more than OTP rejections
\* have been handled; while a prompt is open the token is null; and a state that
\* was given a token holds none only after such a rejection.
C19_PromptsBounded ==
  /\ prompts <= 1 + rejections
  /\ Tok0 # 0 => prompts <= rejections
  /\ Count(calls, "ask") > 0 => token = 0
  /\ (token = 0 /\ supplied > 0) => rejections > 0
  /\ (event.op = "publish" /\ event.res # "retry") => token = event.was

\* the bound is met: three prompts, two rejections
C19_Witness ==
  /\ prompts = 3
  /\ rejections = 2
  /\ token = 0
  /\ Count(calls, "ask") = 1

\* C20: the handler of an attempt that ends its publish call (no error, an error
\* that is no OTP error, any OTP error in CI) writes neither token nor isRequired:
\* in a session of one call they are as they were when the attempt was spawned.
\* The only handler that writes them is that of an OTP rejection outside CI.
C20_EndingLeavesState ==
  [][event'.op = "publish" =>
       /\ event'.res # "retry" =>
            /\ token' = token
            /\ isRequired' = isRequired
            /\ given' = given
            /\ (made = 1 /\ event'.sent # 0) => token' = event'.sent
       /\ (~event'.out.parses \/ ~event'.out.error \/ isCI) => event'.res # "retry"
       /\ (event'.out.parses /\ event'.out.error /\ IsOtpError(event'.out) = "no") =>
            event'.res = "failed"
       /\ (token' # token \/ isRequired' # isRequired) =>
            /\ event'.res = "retry"
            /\ ~isCI
            /\ IsOtpError(event'.out) = "yes"
    ]_vars

\* outside CI an attempt sent with the token of the state was published, and the
\* state has that token and the caller's promise still
C20_Witness ==
  /\ ~isCI
  /\ event.op = "publish" /\ event.res = "published"
  /\ event.sent = 1 /\ token = 1
  /\ isRequired = "given" /\ given = "true"

\* in CI an EOTP error ended the call, the token is still there
C20_CIWitness ==
  /\ isCI
  /\ event.op = "publish" /\ event.out.code = "EOTP" /\ event.res = "failed"
  /\ token = 1 /\ isRequired = "given"
  /\ calls # EmptyBag

====
